---- MODULE Spec2Model ----
(***************************************************************************)
(* Ticketnator: a Flask webhook (src/app.py) that answers chat messages,   *)
(* and for ticket-worthy text starts a background thread that classifies   *)
(* the text with a language model and mails a notification.                *)
(*                                                                         *)
(* Strings are sequences of one-character strings, so that strip, lower,   *)
(* startswith and slicing are computed as Python computes them.  Fixed     *)
(* literals that are never inspected (canned answers, mail addresses) are  *)
(* kept as single fragments.                                               *)
(***************************************************************************)
EXTENDS Integers, Sequences, FiniteSets, TLC

VARIABLES clock, handlers, threads

vars == <<clock, handlers, threads>>

---------------------------------------------------------------------------
(* Bounds of the model *)

MaxRequests == 2

MaxIntake == 1

MaxRuns == 1

MaxTicks == 2

---------------------------------------------------------------------------
(* Python string primitives *)

Whitespace == {" ", "\t", "\n", "\r"}

UpperCase == <<"A","B","C","D","E","F","G","H","I","J","K","L","M",
               "N","O","P","Q","R","S","T","U","V","W","X","Y","Z">>

LowerCase == <<"a","b","c","d","e","f","g","h","i","j","k","l","m",
               "n","o","p","q","r","s","t","u","v","w","x","y","z">>

lower_char(c) ==
    IF \E i \in 1..Len(UpperCase) : UpperCase[i] = c
    THEN LowerCase[CHOOSE i \in 1..Len(UpperCase) : UpperCase[i] = c]
    ELSE c

\* str.lower()
lower(s) == [i \in 1..Len(s) |-> lower_char(s[i])]

\* str.strip(): drop leading and trailing whitespace
strip(s) ==
    LET keep == {i \in 1..Len(s) : s[i] \notin Whitespace}
    IN  IF keep = {} THEN <<>>
        ELSE LET first == CHOOSE i \in keep : \A j \in keep : i <= j
                 last  == CHOOSE i \in keep : \A j \in keep : j <= i
             IN  SubSeq(s, first, last)

\* str.startswith(prefix)
startswith(s, prefix) ==
    /\ Len(prefix) <= Len(s)
    /\ SubSeq(s, 1, Len(prefix)) = prefix

\* s[n:]
slice_from(s, n) == SubSeq(s, n + 1, Len(s))

DigitChars == <<"0","1","2","3","4","5","6","7","8","9">>

RECURSIVE decimal(_)
\* decimal digits of a natural number, as str(n)
decimal(n) ==
    IF n < 10 THEN <<DigitChars[n + 1]>>
    ELSE decimal(n \div 10) \o <<DigitChars[(n % 10) + 1]>>

\* %m, %d, %H, %M, %S: two digits, zero padded
two_digits(n) == <<DigitChars[(n \div 10) + 1], DigitChars[(n % 10) + 1]>>

\* datetime.strftime('%Y%m%d%H%M%S')
strftime(t) ==
    decimal(t.date[1]) \o two_digits(t.date[2]) \o two_digits(t.date[3])
    \o two_digits(t.secs \div 3600)
    \o two_digits((t.secs \div 60) % 60)
    \o two_digits(t.secs % 60)

---------------------------------------------------------------------------
(* Literals of app.py *)

CREATE_TICKET == <<"c","r","e","a","t","e"," ","t","i","c","k","e","t">>

HI == <<"h","i">>

HELLO == <<"h","e","l","l","o">>

HELP == <<"h","e","l","p">>

CHECK_STATUS == <<"c","h","e","c","k"," ","s","t","a","t","u","s">>

UNKNOWN_USER == <<"U","n","k","n","o","w","n"," ","U","s","e","r">>

TRAINING == <<"T","r","a","i","n","i","n","g">>

SENDER_EMAIL == "SENDER_EMAIL"

CATEGORIES ==
    ( <<"T","R","A","I","N","I","N","G","_","E","M","A","I","L">> :> "training@example.com" )
 @@ ( <<"I","T","_","O","P","S","_","E","M","A","I","L">> :> "demogptmukund@gmail.com" )
 @@ ( <<"T","E","C","H","_","E","M","A","I","L">> :> "mukunddemochatgpt@gmail.com" )
 @@ ( <<"H","R","_","E","M","A","I","L">> :> "hr@example.com" )
 @@ ( <<"F","I","N","A","N","C","E","_","E","M","A","I","L">> :> "finance@example.com" )
 @@ ( <<"S","A","L","E","S","_","E","M","A","I","L">> :> "sales@example.com" )

handle_hi == <<"Hi! I'm your support assistant. How can I help you today?">>

handle_help ==
    <<"Available commands:",
      "\n* Hi - Say hello",
      "\n* Help - Show this help message",
      "\n* Create Ticket <description> - Create a new support ticket",
      "\n* Check Status - Check system status">>

handle_check_status == <<"All systems are operational. Ready to assist you!">>

EMPTY_MESSAGE_TEXT == <<"Please provide a description of your issue.">>

EMPTY_DESCRIPTION_TEXT == <<"Please provide a description for your ticket.">>

APOLOGY_TEXT == <<"I encountered an error. Please try again.">>

---------------------------------------------------------------------------
(* Inbound requests: Authorization header, body, "text" and "from" fields *)

NoAuth == [scheme |-> "none", decodes |-> FALSE]

BearerGood == [scheme |-> "Bearer", decodes |-> TRUE]

BearerBad == [scheme |-> "Bearer", decodes |-> FALSE]

Str(s) == [kind |-> "str", val |-> s]

Absent == [kind |-> "absent"]

NonString == [kind |-> "nonstring"]

NonObject == [kind |-> "nonobject"]

Obj(name) == [kind |-> "object", name |-> name]

Req(auth, body, text, from) == [auth |-> auth, body |-> body, text |-> text, from |-> from]

ALICE == <<"A","l","i","c","e">>

IntakeTexts ==
    { <<>>,
      <<" "," ">>,
      <<"h","i">>,
      <<" ","H","i"," ">>,
      <<"H","E","L","L","O">>,
      <<"h","e","l","p">>,
      <<"H","e","l","p","\n">>,
      <<"c","h","e","c","k"," ","s","t","a","t","u","s">>,
      <<"C","h","e","c","k"," ","S","t","a","t","u","s">>,
      <<"C","r","e","a","t","e"," ","T","i","c","k","e","t"," ","p","c">>,
      <<"c","r","e","a","t","e"," ","t","i","c","k","e","t">>,
      <<"C","r","e","a","t","e"," ","T","i","c","k","e","t"," ">>,
      <<"C","R","E","A","T","E"," ","T","I","C","K","E","T"," "," ","V","p","n"," ">>,
      <<"c","r","e","a","t","e"," ","t","i","c","k","e","t","i","n","g">>,
      <<"c","r","e","a","t","e"," ","t","i","c","k","e","t","s"," ","x">>,
      <<"v","p","n"," ","d","o","w","n">>,
      <<"H","i"," ","a","l","l">>,
      <<"h","e","l","p","m","e">>,
      <<"a"," ","c","r","e","a","t","e"," ","t","i","c","k","e","t"," ","b">>,
      <<"c","r","e","a","t","e"," "," ","t","i","c","k","e","t"," ","x">>,
      <<"C","r","e","a","t","e"," ","T","i","c","k","e">>,
      <<"\t","V","P","N"," ","D","o","w","n"," ">> }

Froms == {Absent, Obj(Absent), Obj(Str(ALICE))}

\* every payload the endpoint is exercised with: well-formed ones, and
\* payloads on which request.json, data.get or .strip() raise
IntakeRequests ==
    {Req(NoAuth, "object", Str(x), f) : x \in IntakeTexts, f \in Froms}
    \cup {Req(a, "object", Str(x), Obj(Str(ALICE))) :
            a \in {BearerGood, BearerBad},
            x \in { <<"h","i">>, <<"v","p","n"," ","d","o","w","n">> }}
    \cup {Req(NoAuth, "object", Absent, Obj(Str(ALICE))),
          Req(NoAuth, "object", NonString, Obj(Str(ALICE))),
          Req(NoAuth, "object", Str(<<"v","p","n"," ","d","o","w","n">>), NonObject),
          Req(NoAuth, "object", Str(<<>>), NonObject),
          Req(NoAuth, "null", Absent, Absent),
          Req(NoAuth, "unparseable", Absent, Absent)}

\* a lone surrogate, as json.loads yields for "\\ud800": a character that
\* no codec encodes
SURROGATE == "U+D800"

\* the requests of the concurrent specification: two ticket submissions that
\* differ in every field
Requests ==
    { Req(NoAuth, "object",
          Str(<<"C","r","e","a","t","e"," ","T","i","c","k","e","t"," ","p","c">>),
          Obj(Str(ALICE))),
      Req(NoAuth, "object", Str(<<"v","p","n"," ","d","o","w","n">>), Absent) }

\* the h-th request of the concurrent specification
RequestAt(h) ==
    IF h % 2 = 1
    THEN Req(NoAuth, "object",
             Str(<<"C","r","e","a","t","e"," ","T","i","c","k","e","t"," ","p","c">>),
             Obj(Str(ALICE)))
    ELSE Req(NoAuth, "object", Str(<<"v","p","n"," ","d","o","w","n">>), Absent)

\* the requests of the pipeline specification
PipelineRequests ==
    { Req(NoAuth, "object", Str(<<"v","p","n"," ","d","o","w","n">>), Obj(Str(ALICE))),
      Req(NoAuth, "object", Str(<<SURROGATE, "x">>), Obj(Str(ALICE))) }

Dates == { <<2026, 11, 6>> }

\* 09:59:59, one second before the minute and the hour roll over
StartSecs == { 35999 }

---------------------------------------------------------------------------
(* The message handler, src/app.py lines 124-194 *)

\* as verify_teams_request, but a token that does not decode is refused
verify_teams_request_refusing(auth) ==
    IF auth.scheme # "Bearer" THEN TRUE
    ELSE IF auth.decodes THEN TRUE
    ELSE FALSE

\* verify_teams_request: every branch returns True
verify_teams_request(auth) ==
    IF auth.scheme # "Bearer" THEN TRUE
    ELSE IF auth.decodes THEN TRUE
    ELSE TRUE

\* as ticket_id, but the format stops at the day
ticket_id_of_day(t) ==
    <<"T","K","T","-">> \o SubSeq(strftime(t), 1, 8) \o <<"0","0","0","0","0","0">>

\* f"TKT-{datetime.now().strftime('%Y%m%d%H%M%S')}"
ticket_id(t) == <<"T","K","T","-">> \o strftime(t)

\* as thread_args_create, but the remainder is handed on untrimmed
thread_args_create_untrimmed(user_message, user_name, tid) ==
    [user_message |-> slice_from(user_message, 13),
     user_name |-> user_name, ticket_id |-> tid]

\* line 178 and the args of line 183: (description, user_name, ticket_id)
thread_args_create(user_message, user_name, tid) ==
    [user_message |-> strip(slice_from(user_message, 13)),
     user_name |-> user_name, ticket_id |-> tid]

\* the args of line 187: (user_message, user_name, ticket_id)
thread_args_freeform(user_message, user_name, tid) ==
    [user_message |-> user_message, user_name |-> user_name, ticket_id |-> tid]

ack_created(tid) ==
    <<"Ticket ">> \o tid
    \o <<" has been created. Our support team will get back to you soon!">>

ack_processing(tid) ==
    <<"Ticket ">> \o tid
    \o <<" is being processed. Our support team will get back to you soon!">>

\* what one run of messages() does: the branch it took, the response it
\* returns, the TicketID it generated (<<>> when none), the threads it started
Reply(branch, text, tid, spawn) ==
    [branch |-> branch, status |-> 200,
     body |-> [type |-> "message", text |-> text],
     ticket_id |-> tid, spawn |-> spawn]

\* as GREETINGS, but "hello" is forgotten
GREETINGS_without_hello == {HI}

\* line 171: the greeting words
GREETINGS == {HI, HELLO}

\* as create_ticket, but the acknowledged ticket gets no thread
create_ticket_unscheduled(user_message, user_name, t) ==
    IF strip(slice_from(user_message, 13)) = <<>>
    THEN Reply("create_empty", EMPTY_DESCRIPTION_TEXT, <<>>, <<>>)
    ELSE Reply("create", ack_created(ticket_id(t)), ticket_id(t), <<>>)

\* lines 178-184: the create-ticket branch
create_ticket(user_message, user_name, t) ==
    IF strip(slice_from(user_message, 13)) = <<>>
    THEN Reply("create_empty", EMPTY_DESCRIPTION_TEXT, <<>>, <<>>)
    ELSE Reply("create", ack_created(ticket_id(t)), ticket_id(t),
               <<thread_args_create(user_message, user_name, ticket_id(t))>>)

\* as freeform_ticket, but the thread is never started
freeform_ticket_unscheduled(user_message, user_name, t) ==
    Reply("freeform", ack_processing(ticket_id(t)), ticket_id(t), <<>>)

\* lines 186-188: the free-form branch
freeform_ticket(user_message, user_name, t) ==
    Reply("freeform", ack_processing(ticket_id(t)), ticket_id(t),
          <<thread_args_freeform(user_message, user_name, ticket_id(t))>>)

\* lines 169-188: the command dispatch on a non-empty trimmed text
dispatch(user_message, user_name, t) ==
    LET lower_message == lower(user_message) IN
    IF lower_message \in GREETINGS THEN Reply("hi", handle_hi, <<>>, <<>>)
    ELSE IF lower_message = HELP THEN Reply("help", handle_help, <<>>, <<>>)
    ELSE IF lower_message = CHECK_STATUS
    THEN Reply("check_status", handle_check_status, <<>>, <<>>)
    ELSE IF startswith(lower_message, CREATE_TICKET)
    THEN create_ticket(user_message, user_name, t)
    ELSE freeform_ticket(user_message, user_name, t)

\* as handle_text, but without the empty-message check
handle_text_unchecked(user_message, user_name, t) ==
    dispatch(user_message, user_name, t)

\* lines 166-188: the empty-message check, then the dispatch
handle_text(user_message, user_name, t) ==
    IF user_message = <<>>
    THEN Reply("empty", EMPTY_MESSAGE_TEXT, <<>>, <<>>)
    ELSE dispatch(user_message, user_name, t)

\* lines 162-164: request.json, data.get("text", "").strip() or
\* data.get("from", {}).get("name", ...) raises
parse_raises(q) ==
    \/ q.body # "object"
    \/ q.text.kind = "nonstring"
    \/ q.from.kind = "nonobject"

\* data.get("text", "")
get_text(q) == IF q.text.kind = "absent" THEN <<>> ELSE q.text.val

\* data.get("from", {}).get("name", "Unknown User")
get_name(q) ==
    IF q.from.kind = "absent" THEN UNKNOWN_USER
    ELSE IF q.from.name.kind = "absent" THEN UNKNOWN_USER
    ELSE q.from.name.val

\* the whole of messages() at clock reading t
messages(q, t) ==
    IF ~verify_teams_request(q.auth)
    THEN [branch |-> "unauthorized", status |-> 401,
          body |-> [error |-> "Unauthorized"],
          ticket_id |-> <<>>, spawn |-> <<>>]
    ELSE IF parse_raises(q) THEN Reply("except", APOLOGY_TEXT, <<>>, <<>>)
    ELSE handle_text(strip(get_text(q)), get_name(q), t)

---------------------------------------------------------------------------
(* The background pipeline, src/app.py lines 57-122 *)

Raise == [kind |-> "raise", text |-> <<>>]

\* a response object with a .content attribute
Content(s) == [kind |-> "content", text |-> s]

\* a response without .content: str(response) is used
Plain(s) == [kind |-> "plain", text |-> s]

NoResponse == [kind |-> "none", text |-> <<>>]

\* what model.invoke may do: raise, or answer some text
ModelResponses ==
    { Raise,
      Content(<<"T","r","a","i","n","i","n","g">>),
      Content(<<"I","T"," ","O","p","e","r","a","t","i","o","n","s">>),
      Content(<<"T","e","c","h","n","o","l","o","g","y">>),
      Content(<<"H","R">>),
      Content(<<"F","i","n","a","n","c","e">>),
      Content(<<"S","a","l","e","s">>),
      Content(<<" ","S","a","l","e","s","\n">>),
      Plain(<<"H","R"," ">>),
      Content(<<"B","i","l","l","i","n","g">>),
      Content(<<"h","r">>),
      Content(<<>>),
      Content(<<"H","R","_","E","M","A","I","L">>),
      Plain(<<"\n","T","E","C","H","_","E","M","A","I","L">>) }

\* the responses of the concurrent specification
FewResponses == { Raise, Content(<<"H","R","_","E","M","A","I","L">>) }

\* the responses of the specifications with fairness
RunResponses ==
    { Raise,
      Content(<<"H","R">>),
      Content(<<"B","i","l","l","i","n","g">>),
      Content(<<"H","R","_","E","M","A","I","L">>) }

\* lines 76-79: the body of the try block
classify_try(response) ==
    IF response.kind = "raise" THEN [raised |-> TRUE, value |-> <<>>]
    ELSE LET category == strip(response.text)
         IN  [raised |-> FALSE,
              value |-> IF category \in DOMAIN CATEGORIES THEN category
                        ELSE TRAINING]

\* as get_department_from_gemini, but without the except branch
get_department_from_gemini_uncaught(response) ==
    classify_try(response)

\* lines 75-82: try/except around the model call
get_department_from_gemini(response) ==
    IF classify_try(response).raised
    THEN [raised |-> FALSE, value |-> TRAINING]
    ELSE classify_try(response)

\* line 109: CATEGORIES.get(detected_category, EMAIL_SETTINGS['SENDER_EMAIL'])
dept_email(detected_category) ==
    IF detected_category \in DOMAIN CATEGORIES THEN CATEGORIES[detected_category]
    ELSE SENDER_EMAIL

\* as dept_msg, but the description line repeats the sender
dept_msg_without_description(tid, detected_category, user_name, user_message) ==
    <<"\n        New Ticket: ">> \o tid
    \o <<"\n        Category: ">> \o detected_category
    \o <<"\n        From: ">> \o user_name
    \o <<"\n        Description: ">> \o user_name
    \o <<"\n        ">>

\* lines 111-116
dept_msg(tid, detected_category, user_name, user_message) ==
    <<"\n        New Ticket: ">> \o tid
    \o <<"\n        Category: ">> \o detected_category
    \o <<"\n        From: ">> \o user_name
    \o <<"\n        Description: ">> \o user_message
    \o <<"\n        ">>

\* line 118: f"Support Ticket {ticket_id}"
subject(tid) == <<"Support Ticket ">> \o tid

\* line 92: MIMEText(body, 'plain') encodes the body, and raises
\* UnicodeEncodeError on a character that no codec encodes
mime_text_raises(body) == \E k \in 1..Len(body) : body[k] = SURROGATE

\* threading.Thread(target=process_ticket_async, args=...) started by handler h
NewThread(h, args) ==
    [parent |-> h,
     user_message |-> args.user_message,
     user_name |-> args.user_name,
     ticket_id |-> args.ticket_id,
     pc |-> "classify",
     response |-> NoResponse,
     detected_category |-> <<>>,
     dept_email |-> "",
     subject |-> <<>>,
     dept_msg |-> <<>>,
     classify_calls |-> 0,
     send_calls |-> 0,
     session |-> "none",
     error |-> FALSE,
     transmitted |-> FALSE,
     result |-> "none"]

---------------------------------------------------------------------------
(* Actions *)

Init ==
    /\ clock \in {[date |-> d, secs |-> s, ticks |-> 0] : d \in Dates, s \in StartSecs}
    /\ handlers = <<>>
    /\ threads = <<>>

\* a request arrives dt seconds after the previous one and messages() runs
\* up to its return statement; datetime.now() reads the clock at that moment
Messages(q, dt, max) ==
    /\ Len(handlers) < max
    /\ clock.ticks + dt <= MaxTicks
    /\ clock' = [clock EXCEPT !.secs = @ + dt, !.ticks = @ + dt]
    /\ LET r == messages(q, clock')
           h == Len(handlers) + 1
       IN  /\ handlers' = Append(handlers,
                  [req |-> q, at |-> clock'.secs, pc |-> "return",
                   branch |-> r.branch, status |-> r.status,
                   body |-> r.body, ticket_id |-> r.ticket_id,
                   responses |-> <<>>])
           /\ threads' = threads \o [i \in 1..Len(r.spawn) |-> NewThread(h, r.spawn[i])]

\* as Return, but the handler first joins the threads it started
Return_after_join(h) ==
    /\ handlers[h].pc = "return"
    /\ \A i \in 1..Len(threads) :
          threads[i].parent = h => threads[i].pc = "done"
    /\ handlers' = [handlers EXCEPT ![h].pc = "done",
                       ![h].responses = Append(@, [status |-> handlers[h].status,
                                                   body |-> handlers[h].body])]
    /\ UNCHANGED <<clock, threads>>

\* the return statement of messages(): the response goes to the caller
Return(h) ==
    /\ handlers[h].pc = "return"
    /\ handlers' = [handlers EXCEPT ![h].pc = "done",
                       ![h].responses = Append(@, [status |-> handlers[h].status,
                                                   body |-> handlers[h].body])]
    /\ UNCHANGED <<clock, threads>>

\* lines 107-116: classify, route, build the message text; an exception that
\* escapes get_department_from_gemini ends the run in the except branch
Classify(i, response) ==
    /\ threads[i].pc = "classify"
    /\ LET r == get_department_from_gemini(response)
           t == threads[i]
       IN  threads' = [threads EXCEPT ![i] =
             IF r.raised
             THEN [t EXCEPT !.pc = "done", !.response = response,
                            !.classify_calls = @ + 1]
             ELSE [t EXCEPT !.pc = "send",
                            !.response = response,
                            !.classify_calls = @ + 1,
                            !.detected_category = r.value,
                            !.dept_email = dept_email(r.value),
                            !.subject = subject(t.ticket_id),
                            !.dept_msg = dept_msg(t.ticket_id, r.value,
                                                  t.user_name, t.user_message)]]
    /\ UNCHANGED <<clock, handlers>>

\* line 118 and lines 86-92: send_notification is called and builds the
\* MIME message outside its try block; an exception there leaves
\* send_notification and is caught on line 121
SendNotification(i) ==
    /\ threads[i].pc = "send"
    /\ threads' = [threads EXCEPT ![i] =
          IF mime_text_raises(threads[i].dept_msg)
          THEN [@ EXCEPT !.pc = "done", !.send_calls = @ + 1,
                         !.result = "raised"]
          ELSE [@ EXCEPT !.pc = "connect", !.send_calls = @ + 1]]
    /\ UNCHANGED <<clock, handlers>>

\* line 95: smtplib.SMTP(server, port) connects, or raises
Connect(i, ok) ==
    /\ threads[i].pc = "connect"
    /\ threads' = [threads EXCEPT ![i] =
          IF ok THEN [@ EXCEPT !.pc = "starttls", !.session = "open"]
          ELSE [@ EXCEPT !.pc = "except", !.error = TRUE]]
    /\ UNCHANGED <<clock, handlers>>

\* line 96
StartTLS(i, ok) ==
    /\ threads[i].pc = "starttls"
    /\ threads' = [threads EXCEPT ![i] =
          IF ok THEN [@ EXCEPT !.pc = "login"]
          ELSE [@ EXCEPT !.pc = "exit", !.error = TRUE]]
    /\ UNCHANGED <<clock, handlers>>

\* as Login, but without the with block: a refused login leaves the
\* function with the session still open
Login_leaking(i, ok) ==
    /\ threads[i].pc = "login"
    /\ threads' = [threads EXCEPT ![i] =
          IF ok THEN [@ EXCEPT !.pc = "send_message"]
          ELSE [@ EXCEPT !.pc = "except", !.error = TRUE]]
    /\ UNCHANGED <<clock, handlers>>

\* line 97
Login(i, ok) ==
    /\ threads[i].pc = "login"
    /\ threads' = [threads EXCEPT ![i] =
          IF ok THEN [@ EXCEPT !.pc = "send_message"]
          ELSE [@ EXCEPT !.pc = "exit", !.error = TRUE]]
    /\ UNCHANGED <<clock, handlers>>

\* as SendMessage, but the runs share one connection: a failed transmission
\* fails every run that has a session open
SendMessage_shared(i, ok) ==
    /\ threads[i].pc = "send_message"
    /\ threads' = [j \in 1..Len(threads) |->
          IF j = i
          THEN IF ok THEN [threads[j] EXCEPT !.pc = "exit", !.transmitted = TRUE]
               ELSE [threads[j] EXCEPT !.pc = "exit", !.error = TRUE]
          ELSE IF ~ok /\ threads[j].session = "open"
               THEN [threads[j] EXCEPT !.error = TRUE]
               ELSE threads[j]]
    /\ UNCHANGED <<clock, handlers>>

\* line 98
SendMessage(i, ok) ==
    /\ threads[i].pc = "send_message"
    /\ threads' = [threads EXCEPT ![i] =
          IF ok THEN [@ EXCEPT !.pc = "exit", !.transmitted = TRUE]
          ELSE [@ EXCEPT !.pc = "exit", !.error = TRUE]]
    /\ UNCHANGED <<clock, handlers>>

\* leaving the with block: SMTP.__exit__ sends QUIT and closes the session
\* in its finally clause; a QUIT that is not answered with 221 raises
Exit(i, quit_ok) ==
    /\ threads[i].pc = "exit"
    /\ threads' = [threads EXCEPT ![i] =
          [@ EXCEPT !.session = "closed",
                    !.error = threads[i].error \/ ~quit_ok,
                    !.pc = IF threads[i].error \/ ~quit_ok THEN "except"
                           ELSE "return"]]
    /\ UNCHANGED <<clock, handlers>>

\* as Finish, but a failed send is tried once more
Finish_retrying(i) ==
    /\ threads[i].pc \in {"return", "except"}
    /\ threads' = [threads EXCEPT ![i] =
          IF threads[i].pc = "except" /\ threads[i].send_calls < 2
          THEN [@ EXCEPT !.pc = "send", !.error = FALSE, !.session = "none"]
          ELSE [@ EXCEPT !.pc = "done",
                         !.result = IF threads[i].pc = "return" THEN "True"
                                    ELSE "False"]]
    /\ UNCHANGED <<clock, handlers>>

\* lines 99-103: send_notification returns True, or False from its except
\* branch; lines 119-122: the run logs and ends
Finish(i) ==
    /\ threads[i].pc \in {"return", "except"}
    /\ threads' = [threads EXCEPT ![i] =
          [@ EXCEPT !.pc = "done",
                    !.result = IF threads[i].pc = "return" THEN "True"
                               ELSE "False"]]
    /\ UNCHANGED <<clock, handlers>>

\* one step of pipeline run i
ThreadStep(i, responses) ==
    /\ i \in 1..Len(threads)
    /\ \/ \E response \in responses : Classify(i, response)
       \/ SendNotification(i)
       \/ \E ok \in BOOLEAN : Connect(i, ok)
       \/ \E ok \in BOOLEAN : StartTLS(i, ok)
       \/ \E ok \in BOOLEAN : Login(i, ok)
       \/ \E ok \in BOOLEAN : SendMessage(i, ok)
       \/ \E quit_ok \in BOOLEAN : Exit(i, quit_ok)
       \/ Finish(i)

Pipeline(responses) == \E i \in 1..Len(threads) : ThreadStep(i, responses)

\* some handler returns its response
Returns == \E h \in 1..Len(handlers) : Return(h)

\* line 77 under Spec: the model answers a prompt by its description, one
\* description with a category key and every other one with an exception
AnswerTo(user_message) ==
    IF user_message = <<"p","c">>
    THEN Content(<<"H","R","_","E","M","A","I","L">>)
    ELSE Raise

\* some run takes a step, the model answering by description
Answered ==
    \E i \in 1..Len(threads) :
        ThreadStep(i, FewResponses \cap {AnswerTo(threads[i].user_message)})

\* concurrent ticket submissions: the first arrives at the initial clock
\* reading, each later one in the same second or the next
Next ==
    \/ \E dt \in (IF handlers = <<>> THEN {0} ELSE {0, 1}) :
          Messages(RequestAt(Len(handlers) + 1), dt, MaxRequests)
    \/ Returns
    \/ Answered

Spec == Init /\ [][Next]_vars

\* the endpoint alone, over every kind of payload
NextIntake ==
    \/ \E q \in IntakeRequests, dt \in 0..MaxTicks : Messages(q, dt, MaxIntake)
    \/ Returns

SpecIntake == Init /\ [][NextIntake]_vars

\* pipeline runs, over every kind of model response
NextPipeline ==
    \/ \E q \in PipelineRequests : Messages(q, 0, MaxRuns)
    \/ Returns
    \/ Pipeline(ModelResponses)

SpecPipeline == Init /\ [][NextPipeline]_vars

\* handlers and pipeline runs, over four model responses
NextRuns ==
    \/ \E q \in PipelineRequests : Messages(q, 0, MaxRuns)
    \/ Returns
    \/ Pipeline(RunResponses)

\* the handler's thread is scheduled; nothing is assumed of the pipeline
\* runs, which may block forever in the model call or in the mail transport
SpecHandlerFair == Init /\ [][NextRuns]_vars /\ WF_vars(Returns)

\* the external calls of every pipeline run return or raise
SpecRunsFair ==
    /\ Init /\ [][NextRuns]_vars
    /\ \A i \in 1..MaxRuns : WF_vars(ThreadStep(i, RunResponses))

---------------------------------------------------------------------------
(* Vocabulary of the properties *)

\* the payload is the documented one: an object whose "text", when present,
\* is a string and whose "from", when present, is an object
WellFormed(q) ==
    /\ q.body = "object"
    /\ q.text.kind # "nonstring"
    /\ q.from.kind # "nonobject"

Trimmed(q) == strip(get_text(q))

Folded(q) == lower(Trimmed(q))

\* s without its first n characters, trimmed
RemainderAfter(s, n) == strip(SubSeq(s, n + 1, Len(s)))

\* the pipeline runs started by handler h
RunsOf(h) == {i \in 1..Len(threads) : threads[i].parent = h}

\* TKT- followed by 14 digits
IsTicketID(x) ==
    /\ Len(x) = 18
    /\ SubSeq(x, 1, 4) = <<"T","K","T","-">>
    /\ \A k \in 5..18 : \E d \in 1..10 : x[k] = DigitChars[d]

Embeds(text, x) ==
    /\ Len(x) > 0
    /\ \E k \in 0..(Len(text) - Len(x)) :
         /\ text[k + 1] = x[1]
         /\ SubSeq(text, k + 1, k + Len(x)) = x

IsMessage(body) == DOMAIN body = {"type", "text"} /\ body.type = "message"

\* the command words followed by a space, and the bare command words
CreateCommand(s) ==
    \/ lower(s) = CREATE_TICKET
    \/ startswith(lower(s), CREATE_TICKET \o <<" ">>)

FixedCommands == {HI, HELLO, HELP, CHECK_STATUS}

---------------------------------------------------------------------------
(* Properties of the endpoint, checked under SpecIntake *)

\* C1: a request 'create ticket <description>' (prefix in any case,
\* description non-empty after trimming) generates one TicketID of the form
\* TKT-<14 digits>, schedules exactly one pipeline run, which receives the
\* trimmed remainder after the prefix, the sender name and that TicketID, and
\* is answered with an acknowledgment that embeds that TicketID.
C1_CreateTicketAcknowledged ==
    \A h \in 1..Len(handlers) :
        LET q == handlers[h].req IN
        (/\ WellFormed(q)
         /\ startswith(Folded(q), CREATE_TICKET)
         /\ RemainderAfter(Trimmed(q), 13) # <<>>)
        => /\ IsTicketID(handlers[h].ticket_id)
           /\ Cardinality(RunsOf(h)) = 1
           /\ \A i \in RunsOf(h) :
                /\ threads[i].user_message = RemainderAfter(Trimmed(q), 13)
                /\ threads[i].user_name = get_name(q)
                /\ threads[i].ticket_id = handlers[h].ticket_id
           /\ handlers[h].status = 200
           /\ IsMessage(handlers[h].body)
           /\ Embeds(handlers[h].body.text, handlers[h].ticket_id)
           /\ handlers[h].pc = "done"
              => handlers[h].responses =
                   <<[status |-> 200, body |-> handlers[h].body]>>

\* a create-ticket request with surrounding and inner whitespace was answered
C1_Witness ==
    \E h \in 1..Len(handlers) :
        /\ handlers[h].req.text =
             Str(<<"C","R","E","A","T","E"," ","T","I","C","K","E","T"," "," ","V","p","n"," ">>)
        /\ handlers[h].pc = "done"
        /\ \E i \in RunsOf(h) : threads[i].user_message = <<"V","p","n">>

\* C2: a request whose trimmed text is, in any case, hi, hello, help or
\* check status is answered with the corresponding canned text; no TicketID is
\* generated and no pipeline run is scheduled.
C2_FixedCommandsAreCanned ==
    \A h \in 1..Len(handlers) :
        LET q == handlers[h].req IN
        (WellFormed(q) /\ Folded(q) \in FixedCommands)
        => /\ handlers[h].status = 200
           /\ IsMessage(handlers[h].body)
           /\ Folded(q) \in {HI, HELLO} => handlers[h].body.text = handle_hi
           /\ Folded(q) = HELP => handlers[h].body.text = handle_help
           /\ Folded(q) = CHECK_STATUS
              => handlers[h].body.text = handle_check_status
           /\ handlers[h].ticket_id = <<>>
           /\ RunsOf(h) = {}

\* "HELLO" was answered with the greeting
C2_Witness ==
    \E h \in 1..Len(handlers) :
        /\ handlers[h].req.text = Str(<<"H","E","L","L","O">>)
        /\ handlers[h].pc = "done"
        /\ handlers[h].responses[1].body.text = handle_hi

\* C3: a request whose text is empty after trimming, and a request that is
\* the create-ticket prefix with an empty trimmed remainder, is answered with
\* the instructional validation message; no TicketID is generated and no
\* pipeline run is scheduled.
C3_ValidationCreatesNoTicket ==
    \A h \in 1..Len(handlers) :
        LET q == handlers[h].req IN
        WellFormed(q)
        => /\ Trimmed(q) = <<>>
              => /\ handlers[h].status = 200
                 /\ handlers[h].body =
                      [type |-> "message", text |-> EMPTY_MESSAGE_TEXT]
                 /\ handlers[h].ticket_id = <<>>
                 /\ RunsOf(h) = {}
           /\ (startswith(Folded(q), CREATE_TICKET)
               /\ RemainderAfter(Trimmed(q), 13) = <<>>)
              => /\ handlers[h].status = 200
                 /\ handlers[h].body =
                      [type |-> "message", text |-> EMPTY_DESCRIPTION_TEXT]
                 /\ handlers[h].ticket_id = <<>>
                 /\ RunsOf(h) = {}

\* a blank message and a bare "Create Ticket " were both answered
C3_Witness ==
    \E h \in 1..Len(handlers) :
        /\ handlers[h].req.text \in
             { Str(<<" "," ">>),
               Str(<<"C","r","e","a","t","e"," ","T","i","c","k","e","t"," ">>) }
        /\ handlers[h].pc = "done"
        /\ handlers[h].branch \in {"empty", "create_empty"}

\* C4: the create-ticket branch is taken exactly when the trimmed text, in
\* any case, begins with the command words followed by a space, or is the bare
\* command words; the description handed on is the text after that prefix,
\* trimmed.
C4_CreateBranchExactlyOnPrefix ==
    \A h \in 1..Len(handlers) :
        LET q == handlers[h].req IN
        (WellFormed(q) /\ Trimmed(q) # <<>>)
        => /\ handlers[h].branch \in {"create", "create_empty"}
              <=> CreateCommand(Trimmed(q))
           /\ handlers[h].branch = "create"
              => \A i \in RunsOf(h) :
                   threads[i].user_message = RemainderAfter(Trimmed(q), 14)

\* C5: a non-empty trimmed text that is neither a fixed command nor a
\* create-ticket command schedules exactly one pipeline run, which receives
\* the full trimmed text as its description.
C5_OtherTextIsFreeform ==
    \A h \in 1..Len(handlers) :
        LET q == handlers[h].req IN
        (/\ WellFormed(q)
         /\ Trimmed(q) # <<>>
         /\ Folded(q) \notin FixedCommands
         /\ ~CreateCommand(Trimmed(q)))
        => /\ handlers[h].branch = "freeform"
           /\ Cardinality(RunsOf(h)) = 1
           /\ \A i \in RunsOf(h) : threads[i].user_message = Trimmed(q)

\* C10: every request, on every path, is answered exactly once, with status
\* 200 and a body {type: "message", text: ...}; when parsing the payload
\* raises the text is the apology; no request is answered with 401.
C10_AlwaysSuccessShaped ==
    \A h \in 1..Len(handlers) :
        /\ handlers[h].status = 200
        /\ IsMessage(handlers[h].body)
        /\ parse_raises(handlers[h].req) => handlers[h].body.text = APOLOGY_TEXT
        /\ Len(handlers[h].responses) = (IF handlers[h].pc = "done" THEN 1 ELSE 0)
        /\ \A k \in 1..Len(handlers[h].responses) :
             handlers[h].responses[k] =
               [status |-> 200, body |-> handlers[h].body]

\* an unparseable payload was answered with the apology
C10_Witness ==
    \E h \in 1..Len(handlers) :
        /\ handlers[h].req.body = "unparseable"
        /\ handlers[h].pc = "done"
        /\ handlers[h].responses[1].body.text = APOLOGY_TEXT

---------------------------------------------------------------------------
(* Properties of the pipeline, checked under SpecPipeline *)

IT_OPERATIONS == <<"I","T"," ","O","p","e","r","a","t","i","o","n","s">>

TECHNOLOGY == <<"T","e","c","h","n","o","l","o","g","y">>

HR == <<"H","R">>

FINANCE == <<"F","i","n","a","n","c","e">>

SALES == <<"S","a","l","e","s">>

\* the six category labels of the prompt
Labels == {TRAINING, IT_OPERATIONS, TECHNOLOGY, HR, FINANCE, SALES}

\* the address configured for each label
RoutingTable ==
    ( TRAINING :> "training@example.com" )
 @@ ( IT_OPERATIONS :> "demogptmukund@gmail.com" )
 @@ ( TECHNOLOGY :> "mukunddemochatgpt@gmail.com" )
 @@ ( HR :> "hr@example.com" )
 @@ ( FINANCE :> "finance@example.com" )
 @@ ( SALES :> "sales@example.com" )

\* run i has called get_department_from_gemini
Classified(i) == threads[i].response.kind # "none"

\* the model answered one of the six labels, possibly padded with whitespace
AnsweredLabel(i) ==
    /\ threads[i].response.kind \in {"content", "plain"}
    /\ strip(threads[i].response.text) \in Labels

\* C6: when the model call raises, get_department_from_gemini returns
\* 'Training' and does not raise: the run goes on to the notification with
\* category Training.
C6_ClassifyFailsClosed ==
    \A i \in 1..Len(threads) :
        threads[i].response.kind = "raise"
        => /\ threads[i].detected_category = TRAINING
           /\ threads[i].pc # "classify"
           /\ threads[i].pc = "done" => threads[i].result # "none"

\* the model call raised and the run went on to open its mail session
C6_Witness ==
    \E i \in 1..Len(threads) :
        /\ threads[i].response.kind = "raise"
        /\ threads[i].pc = "starttls"
        /\ threads[i].detected_category = TRAINING

\* C7: classification returns one of the six labels: the trimmed response
\* when that is a label, 'Training' otherwise.
C7_ClassifyReturnsLabel ==
    \A i \in 1..Len(threads) :
        Classified(i)
        => /\ threads[i].detected_category \in Labels
           /\ threads[i].detected_category =
                (IF AnsweredLabel(i) THEN strip(threads[i].response.text)
                 ELSE TRAINING)

\* C8: for each of the six labels the destination of the run is the address
\* the routing table maps that label to; the default address is the
\* destination only for a category that is not in the table.
C8_RoutingIsLookup ==
    \A i \in 1..Len(threads) :
        (Classified(i) /\ threads[i].detected_category \in Labels)
        => /\ threads[i].dept_email = RoutingTable[threads[i].detected_category]
           /\ threads[i].dept_email # SENDER_EMAIL

\* C9: when classification fails or the model answers something that is not
\* one of the six labels, the destination of the run is the default address.
C9_FailureRoutesToDefault ==
    \A i \in 1..Len(threads) :
        (Classified(i) /\ ~AnsweredLabel(i))
        => threads[i].dept_email = SENDER_EMAIL

---------------------------------------------------------------------------
(* Properties of concurrent submissions, checked under Spec *)

\* handler h generated a TicketID
IsTicket(h) == handlers[h].ticket_id # <<>>

\* the step changes pipeline run i
Steps(i) == i \in 1..Len(threads) /\ threads'[i] # threads[i]

\* C11: concurrent ticket submissions each generate their own TicketID and
\* start their own pipeline run, which carries the TicketID embedded in the
\* acknowledgment of its own handler; a step of one run, a notifier failure
\* included, changes no other run and no acknowledgment.
C11_RunsAreIndependent ==
    /\ [](\A h \in 1..Len(handlers) :
            IsTicket(h)
            => /\ Cardinality(RunsOf(h)) = 1
               /\ Embeds(handlers[h].body.text, handlers[h].ticket_id)
               /\ \A i \in RunsOf(h) :
                    threads[i].ticket_id = handlers[h].ticket_id)
    /\ [][\A i \in 1..Len(threads) :
            Steps(i)
            => /\ \A j \in 1..Len(threads) : j # i => threads'[j] = threads[j]
               /\ handlers' = handlers]_vars
    /\ [][\A h \in 1..Len(handlers) :
            /\ handlers'[h].body = handlers[h].body
            /\ handlers'[h].status = handlers[h].status
            /\ \A k \in 1..Len(handlers[h].responses) :
                 handlers'[h].responses[k] = handlers[h].responses[k]]_vars

\* two submissions were acknowledged; the notifier failed in the run of the
\* first and delivered in the run of the second
C11_Witness ==
    /\ Len(handlers) >= 2 /\ Len(threads) >= 2
    /\ handlers[1].pc = "done" /\ handlers[2].pc = "done"
    /\ threads[1].parent = 1 /\ threads[2].parent = 2
    /\ threads[1].pc = "done" /\ threads[1].result = "False"
    /\ threads[2].pc = "done" /\ threads[2].result = "True"

\* C12 as stated: a pipeline run performs no step before the acknowledgment
\* of its ticket has been returned.
C12_AckBeforePipeline ==
    \A i \in 1..Len(threads) :
        threads[i].pc # "classify" => handlers[threads[i].parent].pc = "done"

\* C12 as amended: the pipeline run of a ticket has been started, with the
\* TicketID of the acknowledgment, before the acknowledgment is returned; the
\* run may perform its steps before or after the acknowledgment is returned.
C12_RunStartedBeforeAck ==
    /\ \A h \in 1..Len(handlers) :
         IsTicket(h)
         => \E i \in 1..Len(threads) :
              /\ threads[i].parent = h
              /\ threads[i].ticket_id = handlers[h].ticket_id
    /\ \A i \in 1..Len(threads) :
         /\ threads[i].parent \in 1..Len(handlers)
         /\ handlers[threads[i].parent].pc \in {"return", "done"}

\* a run has finished while its acknowledgment is not yet returned
C12_Witness ==
    \E i \in 1..Len(threads) :
        /\ threads[i].pc = "done"
        /\ handlers[threads[i].parent].pc = "return"

---------------------------------------------------------------------------
(* The handler does not wait, checked under SpecHandlerFair *)

\* C13: the acknowledgment of every request is eventually returned, although
\* its pipeline run may block forever, and the response built by the handler
\* is never changed by a pipeline step.
C13_HandlerNeverWaits ==
    /\ \A h \in 1..MaxRuns :
         (Len(handlers) >= h) ~> (Len(handlers) >= h /\ handlers[h].pc = "done")
    /\ [][\A h \in 1..Len(handlers) :
            /\ handlers'[h].body = handlers[h].body
            /\ handlers'[h].pc = "done"
               => handlers'[h].responses =
                    <<[status |-> 200, body |-> handlers[h].body]>>]_vars

\* an acknowledgment was returned while its run had not yet got an answer
\* from the model
C13_Witness ==
    \E i \in 1..Len(threads) :
        /\ threads[i].pc = "classify"
        /\ handlers[threads[i].parent].pc = "done"
        /\ IsTicketID(handlers[threads[i].parent].ticket_id)

---------------------------------------------------------------------------
(* Properties of send_notification and of the order of a run's steps *)

\* run i called send_notification and the call is over
Sent(i) == threads[i].send_calls >= 1 /\ threads[i].pc = "done"

\* C14 as stated: send_notification never raises past its boundary; on every
\* failure in building, connecting, authenticating or transmitting it returns
\* False, and it returns True only when the message was transmitted.
C14_SendNeverRaises ==
    \A i \in 1..Len(threads) :
        Sent(i)
        => /\ threads[i].result \in {"True", "False"}
           /\ threads[i].result = "True" => threads[i].transmitted
           /\ threads[i].error => threads[i].result = "False"

\* C15: whenever send_notification has left its with block, on the success
\* path or after a failure of starttls, login, send_message or QUIT, the
\* session it opened is closed; this holds for every run at once.
C15_SessionAlwaysClosed ==
    \A i \in 1..Len(threads) :
        /\ threads[i].pc \in {"return", "except", "done"}
           => threads[i].session # "open"
        /\ threads[i].session = "open"
           => threads[i].pc \in {"starttls", "login", "send_message", "exit"}
        /\ threads[i].transmitted /\ threads[i].pc = "done"
           => threads[i].session = "closed"

\* two runs are over: one closed its session after a failure inside the with
\* block, the other after a successful send
C15_Witness ==
    \E i, j \in 1..Len(threads) :
        /\ threads[i].pc = "done" /\ threads[j].pc = "done"
        /\ threads[i].session = "closed" /\ threads[i].error
        /\ ~threads[i].transmitted
        /\ threads[j].session = "closed" /\ threads[j].result = "True"

\* position of a step in process_ticket_async
Rank(pc) ==
    CASE pc = "classify" -> 0
      [] pc = "send" -> 1
      [] pc = "connect" -> 2
      [] pc = "starttls" -> 3
      [] pc = "login" -> 4
      [] pc = "send_message" -> 5
      [] pc = "exit" -> 6
      [] pc \in {"return", "except"} -> 7
      [] pc = "done" -> 8

\* C16: a run classifies, then routes and builds the payload, then sends; it
\* calls the classification exactly once and send_notification at most once,
\* never goes back to an earlier step after a failure, and none of its steps
\* changes a handler or a response.
C16_StepsInOrderOnce ==
    /\ [](\A i \in 1..Len(threads) :
            /\ threads[i].classify_calls =
                 (IF threads[i].pc = "classify" THEN 0 ELSE 1)
            /\ threads[i].send_calls =
                 (IF threads[i].pc \in {"classify", "send"} THEN 0 ELSE 1)
            /\ threads[i].send_calls = 1
               => /\ threads[i].subject = subject(threads[i].ticket_id)
                  /\ threads[i].dept_email
                       = dept_email(threads[i].detected_category))
    /\ [][\A i \in 1..Len(threads) :
            /\ Rank(threads'[i].pc) >= Rank(threads[i].pc)
            /\ threads'[i].classify_calls >= threads[i].classify_calls
            /\ Steps(i) => handlers' = handlers]_vars

\* a run whose send failed is over, having classified once and sent once
C16_Witness ==
    \E i \in 1..Len(threads) :
        /\ threads[i].pc = "done" /\ threads[i].result = "False"
        /\ threads[i].classify_calls = 1 /\ threads[i].send_calls = 1
        /\ handlers[threads[i].parent].pc = "done"

---------------------------------------------------------------------------
(* Termination of a run, checked under SpecRunsFair *)

\* C17: provided every external call returns or raises, every started run
\* eventually calls send_notification, whatever the classification gave
\* (a label, another text, or an exception), and then ends; no exception
\* stops the run before the send.
C17_RunAlwaysAttemptsSend ==
    \A i \in 1..MaxRuns :
        (Len(threads) >= i)
        ~> (/\ Len(threads) >= i
            /\ threads[i].pc = "done"
            /\ threads[i].classify_calls = 1
            /\ threads[i].send_calls = 1)

\* a run whose classification raised has ended after a delivered notification
C17_Witness ==
    \E i \in 1..Len(threads) :
        /\ threads[i].response = Raise
        /\ threads[i].pc = "done"
        /\ threads[i].send_calls = 1
        /\ threads[i].result = "True"

---------------------------------------------------------------------------
(* Payloads and TicketIDs of concurrent runs, checked under Spec *)

\* run i has built its payload
Built(i) == threads[i].pc \notin {"classify"}

\* C18: the subject of a run's payload contains the run's TicketID, its body
\* contains the run's TicketID, the category its own classification returned,
\* its sender name and its description, all taken from the request of its own
\* handler; the body contains no differing field of another run.
C18_PayloadFromOwnInputs ==
    \A i \in 1..Len(threads) :
        Built(i)
        => /\ Embeds(threads[i].subject, threads[i].ticket_id)
           /\ Embeds(threads[i].dept_msg, threads[i].ticket_id)
           /\ Embeds(threads[i].dept_msg, threads[i].detected_category)
           /\ Embeds(threads[i].dept_msg, threads[i].user_name)
           /\ Embeds(threads[i].dept_msg, threads[i].user_message)
           /\ threads[i].ticket_id = handlers[threads[i].parent].ticket_id
           /\ threads[i].user_name = get_name(handlers[threads[i].parent].req)
           /\ Embeds(get_text(handlers[threads[i].parent].req),
                     threads[i].user_message)
           /\ \A j \in 1..Len(threads) :
                /\ threads[j].user_message # threads[i].user_message
                   => ~Embeds(threads[i].dept_msg, threads[j].user_message)
                /\ threads[j].user_name # threads[i].user_name
                   => ~Embeds(threads[i].dept_msg, threads[j].user_name)
                /\ threads[j].ticket_id # threads[i].ticket_id
                   => /\ ~Embeds(threads[i].dept_msg, threads[j].ticket_id)
                      /\ ~Embeds(threads[i].subject, threads[j].ticket_id)
                /\ threads[j].detected_category # threads[i].detected_category
                   => ~Embeds(threads[i].dept_msg, threads[j].detected_category)

\* two runs have built payloads that differ in TicketID, category, sender
\* and description
C18_Witness ==
    \E i, j \in 1..Len(threads) :
        /\ Built(i) /\ Built(j)
        /\ threads[i].ticket_id # threads[j].ticket_id
        /\ threads[i].detected_category # threads[j].detected_category
        /\ threads[i].user_name # threads[j].user_name
        /\ threads[i].user_message # threads[j].user_message

\* C19: two tickets dispatched in the same second get equal TicketIDs and two
\* dispatched in different seconds get different ones; the TicketID is a
\* label only: tickets with equal TicketIDs still have each its own run with
\* its own description.
C19_TicketIDIsSecondLabel ==
    \A g, h \in 1..Len(handlers) :
        IsTicket(g) /\ IsTicket(h)
        => /\ IsTicketID(handlers[h].ticket_id)
           /\ (handlers[g].at = handlers[h].at)
              <=> (handlers[g].ticket_id = handlers[h].ticket_id)
           /\ g # h
              => /\ RunsOf(g) \cap RunsOf(h) = {}
                 /\ Cardinality(RunsOf(g)) = 1
                 /\ \A i \in RunsOf(g) :
                      /\ threads[i].ticket_id = handlers[g].ticket_id
                      /\ Embeds(get_text(handlers[g].req),
                                threads[i].user_message)

\* two tickets of the same second share their TicketID and have two runs
\* with different descriptions, both over
C19_Witness ==
    /\ Len(handlers) >= 2 /\ Len(threads) >= 2
    /\ handlers[1].ticket_id = handlers[2].ticket_id
    /\ IsTicketID(handlers[1].ticket_id)
    /\ threads[1].ticket_id = threads[2].ticket_id
    /\ threads[1].user_message # threads[2].user_message
    /\ threads[1].pc = "done" /\ threads[2].pc = "done"

---------------------------------------------------------------------------
(* Acknowledgments and runs, checked under SpecIntake *)

\* the text contains a TicketID
HasTicketID(text) ==
    \E k \in 0..(Len(text) - 18) : IsTicketID(SubSeq(text, k + 1, k + 18))

\* the texts that are no acknowledgment of a ticket
NoTicketTexts ==
    {handle_hi, handle_help, handle_check_status,
     EMPTY_MESSAGE_TEXT, EMPTY_DESCRIPTION_TEXT, APOLOGY_TEXT}

\* C20: a request answered with a ticket acknowledgment has started exactly
\* one run, a request answered with a canned text, a validation message or
\* the apology has started none, and once every request is answered the
\* number of runs equals the number of ticket acknowledgments returned.
C20_OneRunPerAck ==
    /\ \A h \in 1..Len(handlers) :
         handlers[h].pc = "done"
         => /\ Len(handlers[h].responses) = 1
            /\ HasTicketID(handlers[h].responses[1].body.text)
               <=> Cardinality(RunsOf(h)) = 1
            /\ ~HasTicketID(handlers[h].responses[1].body.text)
               <=> handlers[h].responses[1].body.text \in NoTicketTexts
            /\ handlers[h].responses[1].body.text \in NoTicketTexts
               => RunsOf(h) = {}
    /\ (\A h \in 1..Len(handlers) : handlers[h].pc = "done")
       => Len(threads)
            = Cardinality({h \in 1..Len(handlers) :
                 HasTicketID(handlers[h].responses[1].body.text)})

\* a ticket acknowledgment was returned and exactly one run exists
C20_Witness ==
    /\ Len(handlers) >= 1
    /\ \A h \in 1..Len(handlers) : handlers[h].pc = "done"
    /\ HasTicketID(handlers[1].responses[1].body.text)
    /\ Len(threads) = 1 /\ threads[1].parent = 1

====
